---------------------------- MODULE Spec2Model ----------------------------
(***************************************************************************)
(* CHORDS Data Downloader: the retrieval engine of chords_data_download.py *)
(* and resources/functions.py as a state machine.                          *)
(*                                                                         *)
(* Time is counted in whole seconds since 2024-01-01 00:00:00 (the code    *)
(* works with second precision).  A python dict is a sequence of           *)
(* <<key, value>> pairs in insertion order.  A server response is a record *)
(* with the set of its top-level JSON keys and their values.               *)
(***************************************************************************)
EXTENDS Integers, Sequences, FiniteSets, TLC

VARIABLES
    \* ---- run configuration (chords_data_download.py:33-50) ----
    cfg,
    \* ---- main() ----
    pc,                      \* position of main(): see the actions
    exit,                    \* "" while running, else how the process ended
    idx,                     \* index into instrument_IDs of the current instrument
    files,                   \* per instrument: "none", "csv" or "warning"
    readme,                  \* whether create_README() wrote README.txt
    time, measurements, test,
    total_num_measurements,
    tnts_bound,              \* whether main's local total_num_timestamps is bound
    \* ---- reduce_datapoints() ----
    num_divisions, new_timestamps, t, i, excess_flag,
    idle_sweeps,             \* sweeps in a row that issued no request
    \* ---- time_window() ----
    next_date,
    \* ---- the network, as the program sees it ----
    reqs,                    \* requests issued for the current instrument, in order
    last_resp,               \* the last response received ("" before the first)
    \* ---- one call of a helper function on its own ----
    call, ret

mainvars == <<cfg, pc, exit, idx, files, readme, time, measurements, test,
              total_num_measurements, tnts_bound, num_divisions,
              new_timestamps, t, i, excess_flag, idle_sweeps, next_date,
              reqs, last_resp>>
vars == <<mainvars, call, ret>>

-----------------------------------------------------------------------------
(* Generic helpers *)

Range(s) == {s[k] : k \in 1..Len(s)}

Max(S) == CHOOSE x \in S : \A y \in S : y <= x

CeilDiv(a, b) == (a + b - 1) \div b

\* dict.keys(), in insertion order
Keys(d) == [k \in 1..Len(d) |-> d[k][1]]

HasKey(d, key) == \E k \in 1..Len(d) : d[k][1] = key

\* d[key]
Get(d, key) == d[CHOOSE k \in 1..Len(d) : d[k][1] = key][2]

\* d.update({key: val}): an existing key keeps its place, a new one goes last
Update(d, key, val) ==
    IF HasKey(d, key)
    THEN [k \in 1..Len(d) |-> IF d[k][1] = key THEN <<key, val>> ELSE d[k]]
    ELSE Append(d, <<key, val>>)

-----------------------------------------------------------------------------
(* Record Normalizer: functions.py wind_direction_mapper, is_wind_dir,     *)
(* write_compass_direction.  Bearings and bucket edges are in tenths of a  *)
(* degree, so that 22.5 is 225 and 292.4 is 2924.                          *)

null_value == ""

wind_dir_lookup == <<"N", "NE", "E", "SE", "S", "SW", "W", "NW", "N">>

wind_val_lookup == <<0, 225, 675, 1125, 1575, 2025, 2475, 2924, 3375, 3600>>

\* the for loop of wind_direction_mapper from index k on; "EXIT1" is its
\* print-and-sys.exit(1) after the loop
RECURSIVE MapperLoop(_, _, _)
MapperLoop(wind_dir, null, k) ==
    IF k > Len(wind_val_lookup) - 1 THEN "EXIT1"
    ELSE IF wind_dir < 0 \/ wind_dir > 360 THEN null
    ELSE IF wind_dir * 10 >= wind_val_lookup[k]
            /\ wind_dir * 10 <= wind_val_lookup[k + 1]
         THEN wind_dir_lookup[k]
    ELSE MapperLoop(wind_dir, null, k + 1)

\* wind_direction_mapper with the range test made strict at both ends
wind_direction_mapper_open(wind_dir, null) ==
    IF wind_dir <= 0 \/ wind_dir >= 360 THEN null
    ELSE MapperLoop(wind_dir, null, 1)

wind_direction_mapper(wind_dir, null) == MapperLoop(wind_dir, null, 1)

wind_dir_shortnames == {"wd", "wgd", "wind_direction"}

\* is_wind_dir that does not know the gust direction
is_wind_dir_nogust(measurement) == measurement \in {"wd", "wind_direction"}

is_wind_dir(measurement) == measurement \in wind_dir_shortnames

CompassName(measurement) ==
    CASE measurement = "wd" -> "wd_compass_dir"
      [] measurement = "wgd" -> "wgd_compass_dir"
      [] measurement = "wind_direction" -> "wind_direction_compass_dir"

RECURSIVE CompassLoop(_, _, _, _)
CompassLoop(keys, d, null, k) ==
    IF k > Len(keys) THEN d
    ELSE IF is_wind_dir(keys[k])
         THEN CompassLoop(keys,
                  Update(d, CompassName(keys[k]),
                         wind_direction_mapper(Get(d, keys[k]), null)),
                  null, k + 1)
         ELSE CompassLoop(keys, d, null, k + 1)

write_compass_direction(dictionary, null) ==
    CompassLoop(Keys(dictionary), dictionary, null, 1)

-----------------------------------------------------------------------------
(* Column Model: functions.py headers_are_valid, sort_columns, get_columns, *)
(* build_headers.                                                           *)

b_sort == <<"t1", "t2", "t3", "rh1", "msl1", "sp1", "ws", "wd", "rain",
            "vis1", "ir1", "uv1">>

t_sort == <<"bt1", "mt1", "ht1", "bp1", "bh1", "hh1", "ws", "wd", "wg",
            "wgd", "rg", "sv1", "si1", "su1", "bcs", "bpc", "cfr", "css">>

threeD_sort == <<"t1", "t2", "t3", "ht1", "ht2", "bt1", "mt1", "st1",
    "htu21d_temp", "mcp9808", "bmp_temp", "bme_temp",
    "bp1", "sp1", "msl1", "bmp_slp", "bme_slp", "bmp_pressure",
    "bme_pressure", "bmp_altitude",
    "ws", "wind_speed", "wd", "wind_direction", "wg", "wgd",
    "hh1", "hh2", "rh1", "bh1", "sh1", "htu21d_humidity", "bme_humidity",
    "rain", "rg", "rgt", "rgp", "rgds",
    "h1", "wlo", "wld", "wlm", "wlr",
    "sg",
    "st1", "st2", "st3", "sm1", "sm2", "sm3",
    "sv1", "si1", "su1", "vis1", "ir1", "uv1", "si1145_vis", "si1145_ir",
    "si1145_uv", "si1145_vis1", "si1145_ir1", "si1145_uv1",
    "si1145_vis2", "si1145_ir2", "si1145_uv2", "si1145_vis3", "si1145_ir3",
    "si1145_uv3", "si1145_vis4", "si1145_ir4", "si1145_uv4",
    "solar1", "solar2", "lx",
    "bcs", "bpc", "cfr", "bv", "css", "hth">>

threeD_cal_sort == <<"htu21d_temp", "bmp_temp", "mcp9808", "sht31d_temp",
    "sht31d_humidity", "htu21d_humidity", "bmp_slp", "bmp_pressure", "rain",
    "wind_speed", "wind_direction", "wg", "wgd", "si1145_vis", "si1145_ir",
    "si1145_uv", "bpc">>

f_sort == <<"rg1", "rg2", "rgt1", "rgt2", "rgp1", "rgp2",
    "hi", "wbt", "wbgt",
    "bt1", "bt2", "ht1", "ht2", "st1", "mt1",
    "bh1", "bh2", "hh1", "hh2", "sh1",
    "bp1", "bp2",
    "hth", "bpc", "bcs", "css", "cfr">>

d_sort == <<"ht1", "bt1", "mt1", "hh1", "bmp_slp", "bp1", "rg", "ws", "wd",
            "wg", "wgd", "sv1", "si1", "su1", "hth", "bpc">>

\* main()'s portal_lookup: the portal names input validation accepts
portal_lookup == <<"Barbados", "Trinidad", "3D PAWS", "3D Calibration",
                   "FEWSNET", "Kenya", "Cayman Islands", "Dominican Republic">>

\* the if/elif chain of sort_columns: whether it finds a list for the portal
\* (its else branch is sys.exit(1)), and the list it finds
HasSort(portal_name) ==
    portal_name \in {"Barbados", "Trinidad", "3D PAWS", "3D Calibration",
                     "FEWSNET", "Dominican Republic"}

SortList(portal_name) ==
    CASE portal_name = "Barbados" -> b_sort
      [] portal_name = "Trinidad" -> t_sort
      [] portal_name = "3D PAWS" -> threeD_sort
      [] portal_name = "3D Calibration" -> threeD_cal_sort
      [] portal_name = "FEWSNET" -> f_sort
      [] portal_name = "Dominican Republic" -> d_sort

Inf == 1000000

\* column_map.get(col, float('inf')): {col: i for i, col in enumerate(list)}
\* keeps the last index of a name the list holds twice
ColumnKey(list, col) ==
    IF col \in Range(list)
    THEN Max({k \in 1..Len(list) : list[k] = col}) - 1
    ELSE Inf

\* sorted(columns, key=...): python's sort is stable
StableSort(columns, list) ==
    LET key(k) == ColumnKey(list, columns[k])
        before(j, k) == key(j) < key(k) \/ (key(j) = key(k) /\ j < k)
        pos(k) == Cardinality({j \in 1..Len(columns) : before(j, k)}) + 1
    IN  [p \in 1..Len(columns) |->
            columns[CHOOSE k \in 1..Len(columns) : pos(k) = p]]

\* <<"EXIT1">> stands for print("Could not sort columns.") and sys.exit(1)
sort_columns(columns, portal_name) ==
    IF HasSort(portal_name)
    THEN StableSort(columns, SortList(portal_name))
    ELSE <<"EXIT1">>

\* the inner loop of get_columns over one dictionary's sorted keys
RECURSIVE ColsInner(_, _, _, _)
ColsInner(cols_sorted, columns, include_test, k) ==
    IF k > Len(cols_sorted) THEN columns
    ELSE IF cols_sorted[k] \notin Range(columns)
         THEN ColsInner(cols_sorted,
                  IF include_test
                  THEN columns \o <<cols_sorted[k], "test">>
                  ELSE Append(columns, cols_sorted[k]),
                  include_test, k + 1)
         ELSE ColsInner(cols_sorted, columns, include_test, k + 1)

\* the outer loop of get_columns over the dictionaries
RECURSIVE ColsOuter(_, _, _, _, _)
ColsOuter(dictionary_list, columns, include_test, portal_name, n) ==
    IF n > Len(dictionary_list) THEN columns
    ELSE LET cols_sorted == sort_columns(Keys(dictionary_list[n]), portal_name)
         IN  IF cols_sorted = <<"EXIT1">> THEN <<"EXIT1">>
             ELSE ColsOuter(dictionary_list,
                      ColsInner(cols_sorted, columns, include_test, 1),
                      include_test, portal_name, n + 1)

get_columns(dictionary_list, include_test, portal_name) ==
    ColsOuter(dictionary_list, <<>>, include_test, portal_name, 1)

\* col.endswith('compass_dir'), over the column names of this model
EndsWithCompassDir(col) ==
    col \in {"wd_compass_dir", "wgd_compass_dir",
             "wind_direction_compass_dir", "compass_dir"}

\* headers_are_valid without its rejection of compass_dir names
headers_are_valid_anyname(columns_desired, columns_found) ==
    \A k \in 1..Len(columns_desired) :
        columns_desired[k] \in Range(columns_found)

\* the loop of headers_are_valid
RECURSIVE ValidLoop(_, _, _)
ValidLoop(columns_desired, columns_found, k) ==
    IF k > Len(columns_desired) THEN TRUE
    ELSE IF EndsWithCompassDir(columns_desired[k]) THEN FALSE
    ELSE IF columns_desired[k] \notin Range(columns_found) THEN FALSE
    ELSE ValidLoop(columns_desired, columns_found, k + 1)

headers_are_valid(columns_desired, columns_found) ==
    ValidLoop(columns_desired, columns_found, 1)

\* the loop of build_headers over range(len(columns)); <<"IndexError">>
\* stands for the uncaught IndexError of columns[i+1] past the last column
RECURSIVE HeadersLoop(_, _, _, _, _)
HeadersLoop(columns, columns_desired, include_test, headers, k) ==
    IF k > Len(columns) THEN headers
    ELSE IF Len(columns_desired) = 0
         THEN HeadersLoop(columns, columns_desired, include_test,
                          Append(headers, columns[k]), k + 1)
    ELSE IF columns[k] \in Range(columns_desired)
         THEN IF include_test /\ k + 1 > Len(columns) THEN <<"IndexError">>
              ELSE HeadersLoop(columns, columns_desired, include_test,
                  headers \o <<columns[k]>>
                          \o (IF include_test THEN <<columns[k + 1]>> ELSE <<>>)
                          \o (IF is_wind_dir(columns[k])
                              THEN <<CompassName(columns[k])>> ELSE <<>>),
                  k + 1)
    ELSE HeadersLoop(columns, columns_desired, include_test, headers, k + 1)

\* <<"EXIT1">> stands for sys.exit(1), in sort_columns or after
\* headers_are_valid returned False
build_headers(measurements_, columns_desired, include_test, portal_name) ==
    LET columns == get_columns(measurements_, include_test, portal_name)
    IN  IF columns = <<"EXIT1">> THEN <<"EXIT1">>
        ELSE IF Len(columns) = 0 THEN <<>>
        ELSE IF ~headers_are_valid(columns_desired, columns) THEN <<"EXIT1">>
        ELSE HeadersLoop(columns, columns_desired, include_test, <<"time">>, 1)

-----------------------------------------------------------------------------
(* Serialization: functions.py csv_builder, struct_has_data *)

\* "raised" stands for raise TimestampError(); otherwise the table written,
\* one row per timestamp, each row the values under the headers.
\* measurements[i].update(...) changes the caller's dicts: "measurements" is
\* the list as the call leaves it
csv_builder(headers, time_, measurements_, test_, include_test, null) ==
    IF Len(time_) = Len(measurements_)
    THEN LET updated ==
                 [r \in 1..Len(time_) |->
                    LET m1 == Update(measurements_[r], "time", time_[r])
                    IN  IF include_test /\ Len(test_) = Len(time_)
                        THEN Update(m1, "test", test_[r]) ELSE m1]
         IN  [raised |-> FALSE,
              table |->
                [r \in 1..Len(time_) |->
                   [h \in 1..Len(headers) |->
                       IF HasKey(updated[r], headers[h])
                       THEN Get(updated[r], headers[h]) ELSE null]],
              measurements |-> updated]
    ELSE [raised |-> TRUE, table |-> <<>>, measurements |-> measurements_]

\* struct_has_data with its three tests off by one
struct_has_data_ge(measurements_, time_, test_) ==
    Len(measurements_) >= 0 /\ Len(time_) >= 0 /\ Len(test_) >= 0

struct_has_data(measurements_, time_, test_) ==
    ~(Len(measurements_) = 0) /\ ~(Len(time_) = 0) /\ ~(Len(test_) = 0)

-----------------------------------------------------------------------------
(* Fetch Client: the JSON body of a response and its classification,      *)
(* functions.py has_errors, has_excess_datapoints                          *)

AccessDenied == "Access Denied, user authentication required."

NoResp == [keys |-> {}, errors0 |-> "", error |-> "", data |-> <<>>]

\* {features:[{properties:{data:[...]}}]}
RespOk(data) == [keys |-> {"features"}, errors0 |-> "", error |-> "", data |-> data]

\* {errors:[<string>]}: the request exceeds the size cap
RespTooMany == [keys |-> {"errors"}, errors0 |-> "too many points", error |-> "",
                data |-> <<>>]

\* {errors:["Access Denied..."]}
RespAuth == [keys |-> {"errors"}, errors0 |-> AccessDenied, error |-> "",
             data |-> <<>>]

\* {error:"Internal Server Error"}
RespServer == [keys |-> {"error"}, errors0 |-> "", error |-> "Internal Server Error",
               data |-> <<>>]

\* has_errors without its test for the access-denied message
has_errors_noauth(all_fields) ==
    "error" \in all_fields.keys /\ all_fields.error = "Internal Server Error"

has_errors(all_fields) ==
    \/ "errors" \in all_fields.keys /\ all_fields.errors0 = AccessDenied
    \/ "error" \in all_fields.keys /\ all_fields.error = "Internal Server Error"

has_excess_datapoints(dictionary) == "errors" \in dictionary.keys

\* a body without 'features' read as a body with no observations
HasFeatures_lenient(all_fields) == all_fields.keys = all_fields.keys

\* all_fields['features'] raises KeyError when the key is missing
HasFeatures(all_fields) == "features" \in all_fields.keys

-----------------------------------------------------------------------------
(* Time Utilities: functions.py get_timestamps; datetime.combine and .date *)

Day == 86400

DateOf(ts) == ts \div Day

Combine(date, clock) == date * Day + clock

\* the boundaries with the last one moved to end_time, none appended
get_timestamps_forced(start_time, end_time, divisions) ==
    LET time_delta == (end_time - start_time) \div (60 * divisions)
    IN  [ok |-> TRUE,
         ts |-> [k \in 1..(divisions + 1) |->
                    IF k = divisions + 1 THEN end_time
                    ELSE start_time + (k - 1) * time_delta * 60]]

\* the boundaries without the consistency check: end_time is appended
\* whenever the last evenly spaced boundary is not end_time
get_timestamps_unchecked(start_time, end_time, divisions) ==
    LET time_delta == (end_time - start_time) \div (60 * divisions)
        even == [k \in 1..(divisions + 1) |->
                    start_time + (k - 1) * time_delta * 60]
    IN  [ok |-> TRUE,
         ts |-> IF even[divisions + 1] = end_time THEN even
                ELSE Append(even, end_time)]

\* ok = FALSE stands for "Timestamp reduction error" and sys.exit(1)
get_timestamps(start_time, end_time, divisions) ==
    LET time_delta == (end_time - start_time) \div (60 * divisions)
        even == [k \in 1..(divisions + 1) |->
                    start_time + (k - 1) * time_delta * 60]
        begin == even[divisions + 1]
        time_till_end == CeilDiv(end_time - begin, 60 * divisions)
    IN  IF begin = end_time THEN [ok |-> TRUE, ts |-> even]
        ELSE IF time_till_end < time_delta
             THEN [ok |-> TRUE, ts |-> Append(even, end_time)]
        ELSE [ok |-> FALSE, ts |-> <<>>]

-----------------------------------------------------------------------------
(* The environment: run configurations and what the server may answer *)

NumInstruments == 2

MaxNonEmpty == 2

\* the model follows at most MaxIdleSweeps sweeps in a row that issue no
\* request (the code has no such limit)
MaxIdleSweeps == 2

\* requested ranges of the runs without a daily window, in seconds: each is
\* short enough for the boundary computation to end the doubling
RangeSeconds == {60, 300, 480, 510, 660}

\* runs with a daily window: range starts, range ends, and the window
WalkStarts == {0, 21600}
WalkEnds == {21000, 25200, 172800, 193559, 259200}
\* 05:45:00 and 06:00:59
Window == [start |-> 20700, end |-> 21659]

RunPortals == {"Trinidad", "Kenya"}
RunIncludeTest == {FALSE}
\* the requested columns of the runs that include the test flags
RunColumnsDesired == {<<"t1">>, <<"test">>}

Configs ==
    { [start |-> 0, end |-> len, windowed |-> FALSE,
       window_start |-> 0, window_end |-> 0,
       portal_name |-> p, include_test |-> it, columns_desired |-> <<>>] :
         len \in RangeSeconds, p \in RunPortals, it \in RunIncludeTest }
    \cup
    { [start |-> s, end |-> e, windowed |-> TRUE,
       window_start |-> Window.start, window_end |-> Window.end,
       portal_name |-> p, include_test |-> it, columns_desired |-> <<>>] :
         s \in WalkStarts, e \in WalkEnds, p \in RunPortals,
         it \in RunIncludeTest }
    \cup
    { [start |-> 0, end |-> 300, windowed |-> FALSE,
       window_start |-> 0, window_end |-> 0,
       portal_name |-> "Trinidad", include_test |-> TRUE,
       columns_desired |-> c] : c \in RunColumnsDesired }

\* main()'s input validation (chords_data_download.py:56-82)
ValidConfig(c) ==
    /\ c.start <= c.end
    /\ c.windowed => c.window_start <= c.window_end
    /\ c.portal_name \in Range(portal_lookup)

\* the observations a response may carry: the minute of the hour of the
\* timestamp, the test flag and the measurements
ObsA == [minute |-> 7, test |-> "false", measurements |-> << <<"wd", 90>>, <<"t1", 25>> >>]
ObsB == [minute |-> 15, test |-> "true", measurements |-> << <<"t1", 26>> >>]
Payloads == { <<>>, <<ObsA, ObsB>> }

\* the data of a response to request number n: each observation's timestamp
\* is identified by the request that returned it and its place in the response
Stamp(payload, n) ==
    [k \in 1..Len(payload) |->
        [time |-> [req |-> n, k |-> k, minute |-> payload[k].minute],
         test |-> payload[k].test,
         measurements |-> payload[k].measurements]]

\* the Fetch Client's classification of a response (spec 4.1)
Classify(r) ==
    CASE "features" \in r.keys -> "Ok"
      [] "errors" \in r.keys /\ r.errors0 = AccessDenied -> "AuthError"
      [] "errors" \in r.keys /\ r.errors0 # AccessDenied -> "TooMany"
      [] "error" \in r.keys -> "ServerError"
      [] OTHER -> "None"

\* what the server may answer to the next request of the current instrument:
\* at most MaxNonEmpty of an instrument's responses carry observations
Responses(log) ==
    LET full == {k \in 1..Len(log) : log[k].n > 0}
    IN  {RespOk(Stamp(p, Len(log) + 1)) :
            p \in {q \in Payloads : Len(q) = 0 \/ Cardinality(full) < MaxNonEmpty}}
        \cup {RespTooMany, RespAuth, RespServer}

\* the entry of the request log for a request and its response: who issued it
\* ("plain": main(), "split": reduce_datapoints(), "walk": time_window()), the
\* range asked for, the division count in use, and the answer
Logged(by, lo, hi, d, r) ==
    [by |-> by, lo |-> lo, hi |-> hi, d |-> d, n |-> Len(r.data),
     answer |-> Classify(r)]

-----------------------------------------------------------------------------
(* The three lists every retrieval path builds from a response's data *)

\* the timestamps with only the last observation's kept
TimesOf_last(data) ==
    IF Len(data) = 0 THEN <<>> ELSE <<data[Len(data)].time>>

TimesOf(data) == [k \in 1..Len(data) |-> data[k].time]

MeasurementsOf(data) ==
    [k \in 1..Len(data) |-> write_compass_direction(data[k].measurements, null_value)]

\* the test flags with the first observation's flag left out
TestsOf_short(data) == [k \in 1..(Len(data) - 1) |-> data[k + 1].test]

TestsOf(data) == [k \in 1..Len(data) |-> data[k].test]

RECURSIVE CountKeys(_, _)
CountKeys(data, k) ==
    IF k > Len(data) THEN 0
    ELSE Len(data[k].measurements) + CountKeys(data, k + 1)

\* main()'s test on the plain path: t.minute is none of 0, 15, 30, 45
KeepPlain(obs) ==
    obs.time.minute # 0 /\ obs.time.minute # 15
    /\ obs.time.minute # 30 /\ obs.time.minute # 45

RECURSIVE Filter(_, _)
Filter(data, k) ==
    IF k > Len(data) THEN <<>>
    ELSE IF KeepPlain(data[k]) THEN <<data[k]>> \o Filter(data, k + 1)
    ELSE Filter(data, k + 1)

-----------------------------------------------------------------------------
(* main(), reduce_datapoints() and time_window() *)

NoCall == [fn |-> "none"]

NoRet == [done |-> FALSE]

\* the state main() starts its processing loop in, for a configuration of
\* configs that passed input validation, with main() at position at
Started(configs, at) ==
    /\ cfg \in {c \in configs : ValidConfig(c)}
    /\ pc = at
    /\ exit = ""
    /\ idx = 1
    /\ files = [k \in 1..NumInstruments |-> "none"]
    /\ readme = FALSE
    /\ time = <<>> /\ measurements = <<>> /\ test = <<>>
    /\ total_num_measurements = 0
    /\ tnts_bound = FALSE
    /\ num_divisions = 0 /\ new_timestamps = <<>> /\ t = 0 /\ i = 0
    /\ excess_flag = FALSE
    /\ idle_sweeps = 0
    /\ next_date = 0
    /\ reqs = <<>>
    /\ last_resp = NoResp

Init == Started(Configs, "loop") /\ call = NoCall /\ ret = NoRet

splitvars == <<num_divisions, new_timestamps, t, i, excess_flag, idle_sweeps>>
listvars == <<time, measurements, test, total_num_measurements>>

\* the process ends with a nonzero exit status: sys.exit(1) or an exception
\* nobody catches
Abort(kind) ==
    /\ pc' = "aborted"
    /\ exit' = kind

\* chords_data_download.py:85-98 and 170-171: the next instrument
BeginInstrument ==
    /\ pc = "loop" /\ idx <= NumInstruments
    /\ pc' = IF cfg.windowed THEN "window" ELSE "plain"
    /\ time' = <<>> /\ measurements' = <<>> /\ test' = <<>>
    /\ total_num_measurements' = 0
    /\ tnts_bound' = (tnts_bound \/ ~cfg.windowed)
    /\ reqs' = <<>>
    /\ UNCHANGED <<cfg, exit, idx, files, readme, splitvars, next_date,
                   last_resp, call, ret>>

\* chords_data_download.py:199: after the last instrument
CreateReadme ==
    /\ pc = "loop" /\ idx > NumInstruments
    /\ readme' = (cfg.portal_name \in {"Barbados", "Trinidad", "3D PAWS",
                     "3D Calibration", "FEWSNET", "Dominican Republic"})
    /\ pc' = "done"
    /\ exit' = "0"
    /\ UNCHANGED <<cfg, idx, files, listvars, tnts_bound, splitvars,
                   next_date, reqs, last_resp, call, ret>>

\* chords_data_download.py:99-127, functions.py:478-487: the request for the
\* whole range and what main() does with the response
PlainFetch ==
    /\ pc = "plain"
    /\ \E r \in Responses(reqs) :
        /\ reqs' = Append(reqs, Logged("plain", cfg.start, cfg.end, 0, r))
        /\ last_resp' = r
        /\ IF has_errors(r)
           THEN /\ Abort("sys.exit(1)")
                /\ UNCHANGED <<listvars, splitvars>>
           ELSE IF has_excess_datapoints(r)
           THEN LET gt == get_timestamps(cfg.start, cfg.end, 2)
                IN  /\ UNCHANGED <<listvars>>
                    /\ num_divisions' = 2
                    /\ i' = 0
                    /\ excess_flag' = FALSE
                    /\ idle_sweeps' = 0
                    /\ IF gt.ok
                       THEN /\ new_timestamps' = gt.ts
                            /\ t' = gt.ts[1]
                            /\ pc' = "split"
                            /\ exit' = exit
                       ELSE /\ Abort("sys.exit(1)")
                            /\ UNCHANGED <<new_timestamps, t>>
           ELSE LET kept == Filter(r.data, 1)
                IN  /\ time' = time \o TimesOf(kept)
                    /\ measurements' = measurements \o MeasurementsOf(kept)
                    /\ test' = test \o TestsOf(kept)
                    /\ total_num_measurements' =
                           total_num_measurements + CountKeys(kept, 1)
                    /\ pc' = "handoff"
                    /\ exit' = exit
                    /\ UNCHANGED splitvars
    /\ UNCHANGED <<cfg, idx, files, readme, tnts_bound, next_date, call, ret>>

\* reduce_datapoints without the skip of the prefix already fetched
Skip_never(k) == FALSE

\* the skip with its comparison turned around: what lies after t is skipped
Skip_after(k) == new_timestamps[k + 1] > t /\ t # new_timestamps[1]

\* only the first sub-interval of a later sweep is skipped
Skip_first(k) == k = 0 /\ t # new_timestamps[1]

\* functions.py:491: the sub-interval with python index k is skipped
Skip(k) == new_timestamps[k + 1] < t /\ t # new_timestamps[1]

\* the python indices of the for loop from index `from` on that are not skipped
Pending(from) == {k \in from..(Len(new_timestamps) - 2) : ~Skip(k)}

Min(S) == CHOOSE x \in S : \A y \in S : x <= y

\* functions.py:489-517: the next request of the sweep and what
\* reduce_datapoints() does with the response
SplitFetch ==
    /\ pc = "split"
    /\ Pending(i) # {}
    /\ LET j == Min(Pending(i)) IN
       \E r \in Responses(reqs) :
        /\ reqs' = Append(reqs, Logged("split", new_timestamps[j + 1],
                                        new_timestamps[j + 2], num_divisions, r))
        /\ last_resp' = r
        /\ idle_sweeps' = 0
        /\ IF has_excess_datapoints(r)
           THEN LET gt == get_timestamps(cfg.start, cfg.end, num_divisions * 2)
                IN  /\ t' = new_timestamps[j + 1]
                    /\ num_divisions' = num_divisions * 2
                    /\ UNCHANGED listvars
                    /\ IF gt.ok
                       THEN /\ new_timestamps' = gt.ts
                            /\ excess_flag' = TRUE
                            /\ i' = 0
                            /\ pc' = "split"
                            /\ exit' = exit
                       ELSE /\ Abort("sys.exit(1)")
                            /\ UNCHANGED <<new_timestamps, excess_flag, i>>
           ELSE /\ excess_flag' = FALSE
                /\ UNCHANGED <<num_divisions, new_timestamps, t>>
                /\ IF ~HasFeatures(r)
                   THEN /\ Abort("KeyError")
                        /\ UNCHANGED <<listvars, i>>
                   ELSE /\ time' = time \o TimesOf(r.data)
                        /\ measurements' = measurements \o MeasurementsOf(r.data)
                        /\ test' = test \o TestsOf(r.data)
                        /\ total_num_measurements' =
                               total_num_measurements + CountKeys(r.data, 1)
                        /\ i' = j + 1
                        /\ pc' = IF Pending(j + 1) = {} THEN "handoff" ELSE "split"
                        /\ exit' = exit
    /\ UNCHANGED <<cfg, idx, files, readme, tnts_bound, next_date, call, ret>>

\* functions.py:489-517: a sweep whose remaining sub-intervals are all skipped
\* issues no request; excess_flag keeps the value the last request left
SplitSweepEmpty ==
    /\ pc = "split"
    /\ Pending(i) = {}
    /\ idle_sweeps < MaxIdleSweeps
    /\ idle_sweeps' = idle_sweeps + 1
    /\ IF excess_flag
       THEN /\ i' = 0
            /\ pc' = "split"
       ELSE /\ i' = i
            /\ pc' = "handoff"
    /\ UNCHANGED <<cfg, exit, idx, files, readme, listvars, tnts_bound,
                   num_divisions, new_timestamps, t, excess_flag, next_date,
                   reqs, last_resp, call, ret>>

\* functions.py:360-373 and 381-394: one day's request and what time_window()
\* does with the response
DayFetch(date) ==
    \E r \in Responses(reqs) :
        /\ reqs' = Append(reqs, Logged("walk", Combine(date, cfg.window_start),
                                        Combine(date, cfg.window_end), 0, r))
        /\ last_resp' = r
        /\ IF has_errors(r)
           THEN /\ Abort("sys.exit(1)")
                /\ UNCHANGED <<listvars, next_date>>
           ELSE IF ~HasFeatures(r)
           THEN /\ Abort("KeyError")
                /\ UNCHANGED <<listvars, next_date>>
           ELSE /\ time' = time \o TimesOf(r.data)
                /\ measurements' = measurements \o MeasurementsOf(r.data)
                /\ test' = test \o TestsOf(r.data)
                /\ total_num_measurements' =
                       total_num_measurements + CountKeys(r.data, 1)
                /\ next_date' = date + 1
                /\ pc' = "walk"
                /\ exit' = exit

\* the first-day test made on the end of the window instead of its start
FirstDayInRange_byend == Combine(DateOf(cfg.start), cfg.window_end) >= cfg.start

\* functions.py:356: the first day's window starts inside the range
FirstDayInRange == Combine(DateOf(cfg.start), cfg.window_start) >= cfg.start

\* the while condition made on the start of the day's window
MoreDays_bystart(date) == Combine(date, cfg.window_start) < cfg.end

\* functions.py:377: the while condition for the day `date`
MoreDays(date) == Combine(date, cfg.window_end) < cfg.end

\* functions.py:355-376: the first day, when its window starts inside the range
WalkFirstDay ==
    /\ pc = "window"
    /\ FirstDayInRange
    /\ DayFetch(DateOf(cfg.start))
    /\ UNCHANGED <<cfg, idx, files, readme, tnts_bound, splitvars, call, ret>>

\* functions.py:355-376: the first day's window starts before the range
WalkSkipFirstDay ==
    /\ pc = "window"
    /\ ~FirstDayInRange
    /\ next_date' = DateOf(cfg.start) + 1
    /\ pc' = "walk"
    /\ UNCHANGED <<cfg, exit, idx, files, readme, listvars, tnts_bound,
                   splitvars, reqs, last_resp, call, ret>>

\* functions.py:377-396: the while loop's next day
WalkNextDay ==
    /\ pc = "walk"
    /\ MoreDays(next_date)
    /\ DayFetch(next_date)
    /\ UNCHANGED <<cfg, idx, files, readme, tnts_bound, splitvars, call, ret>>

\* functions.py:377 and 405: the while loop ends and time_window() returns
WalkReturn ==
    /\ pc = "walk"
    /\ ~MoreDays(next_date)
    /\ pc' = "handoff"
    /\ UNCHANGED <<cfg, exit, idx, files, readme, listvars, tnts_bound,
                   splitvars, next_date, reqs, last_resp, call, ret>>

\* chords_data_download.py:179-197: headers, then the table or the warning.
\* csv_builder leaves 'time' (and 'test') in the dicts of main()'s measurements
BuildAndWrite ==
    /\ pc = "handoff"
    /\ LET headers == build_headers(measurements, cfg.columns_desired,
                                    cfg.include_test, cfg.portal_name)
           csv == csv_builder(headers, time, measurements, test,
                              cfg.include_test, null_value)
       IN  IF headers = <<"EXIT1">>
           THEN /\ Abort("sys.exit(1)")
                /\ UNCHANGED <<idx, files, measurements>>
           ELSE IF headers = <<"IndexError">>
           THEN /\ Abort("IndexError")
                /\ UNCHANGED <<idx, files, measurements>>
           ELSE IF struct_has_data(measurements, time, test)
           THEN IF csv.raised
                THEN /\ Abort("TimestampError")
                     /\ UNCHANGED <<idx, files, measurements>>
                ELSE /\ files' = [files EXCEPT ![idx] = "csv"]
                     /\ measurements' = csv.measurements
                     /\ IF tnts_bound
                        THEN /\ idx' = idx + 1
                             /\ pc' = "loop"
                             /\ exit' = exit
                        ELSE /\ Abort("UnboundLocalError")
                             /\ idx' = idx
           ELSE /\ files' = [files EXCEPT ![idx] = "warning"]
                /\ idx' = idx + 1
                /\ pc' = "loop"
                /\ exit' = exit
                /\ UNCHANGED measurements
    \* the locals of reduce_datapoints() and time_window() are gone
    /\ num_divisions' = 0 /\ new_timestamps' = <<>> /\ t' = 0 /\ i' = 0
    /\ excess_flag' = FALSE /\ idle_sweeps' = 0
    /\ next_date' = 0
    /\ UNCHANGED <<cfg, readme, time, test, total_num_measurements,
                   tnts_bound, reqs, last_resp, call, ret>>

Next ==
    \/ BeginInstrument
    \/ CreateReadme
    \/ PlainFetch
    \/ SplitFetch
    \/ SplitSweepEmpty
    \/ WalkFirstDay
    \/ WalkSkipFirstDay
    \/ WalkNextDay
    \/ WalkReturn
    \/ BuildAndWrite

Spec == Init /\ [][Next]_vars

-----------------------------------------------------------------------------
(* Single calls of wind_direction_mapper, csv_builder and build_headers: the *)
(* arguments are drawn in the initial state, one step applies the function.  *)

BearingMargin == 20
MaxRecords == 2
MaxRows == 2

Bearings == (0 - BearingMargin)..(360 + BearingMargin)

NullMarkers == {"", "NaN"}

\* measurements dicts as the API delivers them
RawRecords ==
    { << <<"wd", 90>>, <<"t1", 25>> >>,
      << <<"t1", 26>> >>,
      << <<"t1", 26>>, <<"wd", 400>> >>,
      << <<"rain", 1>>, <<"zz", 3>>, <<"t1", 2>> >>,
      << <<"wgd", 180>>, <<"ws", 2>> >>,
      << >> }

\* what main() stores: every dict after write_compass_direction
NormalRecords == {write_compass_direction(d, null_value) : d \in RawRecords}

SeqsUpTo(S, n) == UNION {[1..m -> S] : m \in 0..n}

Prefixes(s, n) == {SubSeq(s, 1, m) : m \in 0..n}

ColumnsDesired ==
    {<<>>, <<"t1">>, <<"wd">>, <<"t1", "wd">>, <<"wd_compass_dir">>, <<"uv1">>,
     <<"test">>}

CompassCalls ==
    [fn : {"wind_direction_mapper"}, wind_dir : Bearings, null : NullMarkers]

HeaderCalls ==
    [fn : {"build_headers"},
     measurements : SeqsUpTo(NormalRecords, MaxRecords),
     columns_desired : ColumnsDesired,
     include_test : BOOLEAN,
     portal_name : Range(portal_lookup)]

CsvCalls ==
    [fn : {"csv_builder"},
     headers : {<<"time", "t1", "wd", "wd_compass_dir">>,
                <<"time", "t1", "test", "wd", "test">>},
     time : Prefixes(<<"T1", "T2", "T3", "T4">>, MaxRows + 1),
     measurements : SeqsUpTo({write_compass_direction(ObsA.measurements, null_value),
                              ObsB.measurements}, MaxRows),
     test : Prefixes(<<"false", "true", "false", "true">>, MaxRows + 1),
     include_test : BOOLEAN,
     null : NullMarkers]

\* main() does not run while a single function is called
Parked == Started({CHOOSE c \in Configs : ValidConfig(c)}, "call")

InitCompass == Parked /\ call \in CompassCalls /\ ret = NoRet

CallCompass ==
    /\ call.fn = "wind_direction_mapper" /\ ~ret.done
    /\ ret' = [done |-> TRUE,
               val |-> wind_direction_mapper(call.wind_dir, call.null)]
    /\ UNCHANGED <<mainvars, call>>

SpecCompass == InitCompass /\ [][CallCompass]_vars

InitCsv == Parked /\ call \in CsvCalls /\ ret = NoRet

CallCsv ==
    /\ call.fn = "csv_builder" /\ ~ret.done
    /\ ret' = [done |-> TRUE,
               val |-> csv_builder(call.headers, call.time, call.measurements,
                                   call.test, call.include_test, call.null)]
    /\ UNCHANGED <<mainvars, call>>

SpecCsv == InitCsv /\ [][CallCsv]_vars

InitHeaders == Parked /\ call \in HeaderCalls /\ ret = NoRet

CallHeaders ==
    /\ call.fn = "build_headers" /\ ~ret.done
    /\ ret' = [done |-> TRUE,
               val |-> build_headers(call.measurements, call.columns_desired,
                                     call.include_test, call.portal_name)]
    /\ UNCHANGED <<mainvars, call>>

SpecHeaders == InitHeaders /\ [][CallHeaders]_vars

MaxFields == 3

FieldPool == {"wd", "wgd", "wind_direction", "t1", "ws"}

ValuePool == {0 - 5, 90, 400}

\* measurements dicts of up to MaxFields fields, as the API can deliver them
ApiRecords ==
    {d \in SeqsUpTo(FieldPool \X ValuePool, MaxFields) :
        \A j, k \in 1..Len(d) : j # k => d[j][1] # d[k][1]}

InitNormalize ==
    /\ Parked
    /\ call \in [fn : {"write_compass_direction"}, dictionary : ApiRecords,
                  null : NullMarkers]
    /\ ret = NoRet

\* main() passes dict(data[i]['measurements']) to write_compass_direction
CallNormalize ==
    /\ call.fn = "write_compass_direction" /\ ~ret.done
    /\ ret' = [done |-> TRUE, round |-> 1, arg |-> call.dictionary,
               val |-> write_compass_direction(call.dictionary, call.null)]
    /\ UNCHANGED <<mainvars, call>>

\* the dict a call returned is passed to write_compass_direction again
CallNormalizeAgain ==
    /\ call.fn = "write_compass_direction" /\ ret.done /\ ret.round = 1
    /\ ret' = [done |-> TRUE, round |-> 2, arg |-> ret.val,
               val |-> write_compass_direction(ret.val, call.null)]
    /\ UNCHANGED <<mainvars, call>>

SpecNormalize ==
    InitNormalize /\ [][CallNormalize \/ CallNormalizeAgain]_vars

MaxSpanMinutes == 20

MaxDivisions == 8

\* datetimes with and without a seconds part; ranges in steps of 30 s
TimestampCalls ==
    {c \in [fn : {"get_timestamps"}, start_time : {0, 90},
             end_time : {30 * k : k \in 0..(2 * MaxSpanMinutes + 3)},
             divisions : 1..MaxDivisions] : c.start_time <= c.end_time}

InitTimestamps == Parked /\ call \in TimestampCalls /\ ret = NoRet

CallTimestamps ==
    /\ call.fn = "get_timestamps" /\ ~ret.done
    /\ ret' = [done |-> TRUE,
               val |-> get_timestamps(call.start_time, call.end_time,
                                      call.divisions)]
    /\ UNCHANGED <<mainvars, call>>

SpecTimestamps == InitTimestamps /\ [][CallTimestamps]_vars

-----------------------------------------------------------------------------
(* Claims about the run: checked under Spec *)

Last(s) == s[Len(s)]

FatalAnswers == {"AuthError", "ServerError"}

Aborted == pc = "aborted" /\ exit \notin {"", "0"}

\* C1: whenever a response is classified AuthError or ServerError, on the
\* plain fetch, on a sub-interval fetch of the splitter or on a per-day fetch
\* of the walker, the run has aborted with a nonzero exit, and no request was
\* issued after such a response.
C1_FatalResponseAbortsRun ==
    /\ Classify(last_resp) \in FatalAnswers => Aborted
    /\ \A k \in 1..(Len(reqs) - 1) : reqs[k].answer \notin FatalAnswers

SplitterInvoked ==
    num_divisions > 0 \/ \E k \in 1..Len(reqs) : reqs[k].by = "split"

\* C2: per instrument exactly one retrieval path is taken.  With a daily
\* window every request comes from the walker and the splitter is not
\* invoked; without one the first request is the one plain fetch over
\* [start, end], every later request comes from the splitter, and the
\* splitter is invoked if and only if the plain fetch reported TooMany.
C2_OneRetrievalPath ==
    /\ cfg.windowed =>
          /\ \A k \in 1..Len(reqs) : reqs[k].by = "walk"
          /\ ~SplitterInvoked
    /\ ~cfg.windowed =>
          /\ \A k \in 1..Len(reqs) :
                reqs[k].by = (IF k = 1 THEN "plain" ELSE "split")
          /\ Len(reqs) >= 1 =>
                reqs[1].lo = cfg.start /\ reqs[1].hi = cfg.end
          /\ pc \in {"split", "handoff"} => Len(reqs) >= 1
          /\ SplitterInvoked <=>
                (Len(reqs) >= 1 /\ reqs[1].answer = "TooMany")

C2_Witness ==
    /\ ~cfg.windowed /\ pc = "handoff"
    /\ reqs[1].answer = "TooMany" /\ Len(reqs) > 2
    /\ idx = 2

\* a sweep of the splitter ends in this step: the splitter returns, or the
\* for loop starts again from index 0
SweepEnds == pc = "split" /\ (pc' = "handoff" \/ (pc' = "split" /\ i' = 0))

\* this step issued a request that was answered with an 'errors' list, which
\* is how the splitter learns of TooMany (a TooMany ends the sweep, so a sweep
\* had a TooMany exactly if its last request had one)
ExcessInStep ==
    /\ Len(reqs') = Len(reqs) + 1
    /\ Last(reqs').answer \in {"TooMany", "AuthError"}

\* C3: the splitter returns exactly at the end of the first sweep in which no
\* fetched sub-interval reported TooMany: whenever a sweep ends, the splitter
\* returns if and only if no request of that sweep reported TooMany.
C3_ReturnsAfterFirstCleanSweep ==
    [][SweepEnds => (pc' = "handoff" <=> ~ExcessInStep)]_vars

\* the sub-interval a record of the result was fetched with
IntervalOf(stamp) == reqs[stamp.req]

\* C4: the records the splitter returns are in chronological sub-interval
\* order: of two records fetched with different requests, the one appended
\* earlier comes from a sub-interval that ends at or before the start of the
\* sub-interval of the one appended later, also across sweeps.
C4_ChronologicalOrder ==
    ~cfg.windowed =>
        \A a, b \in 1..Len(time) :
            (a < b /\ time[a].req # time[b].req) =>
                IntervalOf(time[a]).hi <= IntervalOf(time[b]).lo

\* the splitter returned records of two sub-intervals of different sweeps
C4_Witness ==
    /\ pc = "handoff"
    /\ \E a, b \in 1..Len(time) :
          /\ a < b
          /\ IntervalOf(time[a]).by = "split" /\ IntervalOf(time[b]).by = "split"
          /\ IntervalOf(time[a]).d < IntervalOf(time[b]).d

\* the run of claim C5: range [2024-01-01 06:00:00, 2024-01-03 05:45:59],
\* daily window [05:45:00, 06:00:59]
C5Run ==
    /\ cfg.windowed
    /\ cfg.start = 21600 /\ cfg.end = 2 * Day + 20759
    /\ cfg.window_start = 20700 /\ cfg.window_end = 21659

\* C5 as claimed: in that run the walker issues exactly 2 fetches, for Jan 1
\* and for Jan 2, each spanning that day's window.
C5_TwoFetches ==
    (C5Run /\ pc = "handoff") =>
        /\ Len(reqs) = 2
        /\ reqs[1].lo = 20700 /\ reqs[1].hi = 21659
        /\ reqs[2].lo = Day + 20700 /\ reqs[2].hi = Day + 21659

\* C5 as amended: in that run the walker issues exactly 1 fetch, for Jan 2,
\* spanning [Jan 2 05:45:00, Jan 2 06:00:59]; Jan 1 is skipped because its
\* window starts before the range does.
C5_OneFetch ==
    C5Run =>
        /\ Len(reqs) <= 1
        /\ \A k \in 1..Len(reqs) :
              reqs[k].lo = Day + 20700 /\ reqs[k].hi = Day + 21659
        /\ pc = "handoff" => Len(reqs) = 1

C5_Witness == C5Run /\ pc = "handoff" /\ Len(reqs) = 1 /\ Len(time) > 0

\* C6: where a retrieval path hands its result to build_headers and the
\* writer, the timestamps, the observations and the test flags have the same
\* length.
C6_EqualLengths ==
    pc = "handoff" =>
        Len(time) = Len(measurements) /\ Len(measurements) = Len(test)

\* a result of the splitter after a re-split, with observations
C6_Witness ==
    /\ pc = "handoff" /\ Len(time) >= 4
    /\ \E k \in 1..Len(reqs) : reqs[k].by = "split" /\ reqs[k].d > 2

-----------------------------------------------------------------------------
(* Claims about single calls *)

LengthsAgree ==
    Len(call.time) = Len(call.measurements) /\ Len(call.test) = Len(call.time)

\* C7: csv_builder called with timestamps, observations and test flags that
\* do not all have the same length raises TimestampError and writes no
\* table, whichever of the three differs in length.
C7_AnyMismatchRaises ==
    (ret.done /\ ~LengthsAgree) =>
        ret.val.raised /\ ret.val.table = <<>>

\* the label of the 45-degree bucket around N, NE, ... that holds bearing b;
\* no integer lies on an edge, the edges being at odd multiples of 22.5
BucketLabel(b) ==
    LET eighths == ((b * 10 + 225) \div 450) % 8
    IN  <<"N", "NE", "E", "SE", "S", "SW", "W", "NW">>[eighths + 1]

\* C8: for every integer bearing b in 0..360 wind_direction_mapper returns
\* the label of the bucket that holds b; for every integer b below 0 or above
\* 360 it returns the caller's null marker; it never reaches its exit.
C8_CompassOfBearing ==
    ret.done =>
        /\ ret.val # "EXIT1"
        /\ (call.wind_dir >= 0 /\ call.wind_dir <= 360) =>
              ret.val = BucketLabel(call.wind_dir)
        /\ (call.wind_dir < 0 \/ call.wind_dir > 360) =>
              ret.val = call.null

\* bearing 293, next to the edge the code has at 292.4, mapped to NW
C8_Witness ==
    ret.done /\ call.wind_dir = 293 /\ ret.val = "NW" /\ call.null = "NaN"

\* the portal's canonical list holds the column
Canonical(col) == col \in Range(SortList(call.portal_name))

\* first position of the column in the portal's canonical list
CanonicalPos(col) ==
    CHOOSE k \in 1..Len(SortList(call.portal_name)) :
        /\ SortList(call.portal_name)[k] = col
        /\ \A j \in 1..(k - 1) : SortList(call.portal_name)[j] # col

\* columns a, b are in the portal's order: a canonical column before a
\* non-canonical one, two canonical ones as in the canonical list
InPortalOrder(a, b) ==
    IF Canonical(a) /\ Canonical(b) THEN CanonicalPos(a) <= CanonicalPos(b)
    ELSE Canonical(a) \/ ~Canonical(b)

AllColumnsCall ==
    /\ ret.done /\ HasSort(call.portal_name)
    /\ call.columns_desired = <<>> /\ ~call.include_test

\* C9: for every list of records and every portal with a canonical list, the
\* fields in the header list are in the portal's order over the union of the
\* records: a field never comes after a field that the canonical list puts
\* behind it, and no canonical field comes after a non-canonical one.
C9_HeadersInPortalOrder ==
    AllColumnsCall =>
        \A p, q \in 2..Len(ret.val) :
            p < q => InPortalOrder(ret.val[p], ret.val[q])

C10Records ==
    << write_compass_direction(<< <<"wd", 90>>, <<"t1", 25>> >>, null_value),
       << <<"t1", 26>> >> >>

\* C10: for the records {wd: 90, t1: 25.3} and {t1: 26.0} after
\* normalization, no requested columns and no test flags, build_headers
\* returns time, wd, wd_compass_dir, t1.
C10_ExampleHeaders ==
    (AllColumnsCall /\ call.measurements = C10Records) =>
        ret.val = <<"time", "wd", "wd_compass_dir", "t1">>

\* the field names of the records of the call
FieldNames ==
    UNION {Range(Keys(call.measurements[n])) : n \in 1..Len(call.measurements)}

\* a requested column that is no field of any record, or a compass_dir name
Offending ==
    \E k \in 1..Len(call.columns_desired) :
        \/ EndsWithCompassDir(call.columns_desired[k])
        \/ call.columns_desired[k] \notin FieldNames

\* build_headers ended the process: sys.exit(1) or an uncaught exception
HeadersAborted == ret.val \in {<<"EXIT1">>, <<"IndexError">>}

\* C11 as claimed: if the requested columns hold a name that is no field of
\* any record, or a compass_dir name, build_headers ends the run with a
\* nonzero exit and returns no header list, for either include_test value.
C11_OffendingNameAborts ==
    (ret.done /\ Offending) => HeadersAborted

\* C11 as amended: in that case build_headers ends the run with a nonzero
\* exit, unless no field was discovered in any record: then, and only then,
\* it can return, and what it returns is the empty header list, the requested
\* columns not having been looked at.
C11_OffendingNameAbortsIfFields ==
    (ret.done /\ Offending) =>
        \/ HeadersAborted
        \/ FieldNames = {} /\ ret.val = <<>>

\* the compass_dir column is a field of the records, is requested, and the
\* request is rejected
C11_Witness ==
    /\ ret.done /\ call.include_test /\ HasSort(call.portal_name)
    /\ call.columns_desired = <<"wd_compass_dir">>
    /\ "wd_compass_dir" \in FieldNames
    /\ ret.val = <<"EXIT1">>

\* C12: when the retrieval for an instrument returned zero observations,
\* main() writes the warning file for it and no table, does not abort, and
\* goes on to the next instrument, on the plain, splitter and windowed paths.
C12_NoDataGivesWarning ==
    [][(pc = "handoff" /\ Len(measurements) = 0) =>
          /\ files' = [files EXCEPT ![idx] = "warning"]
          /\ idx' = idx + 1
          /\ pc' = "loop"
          /\ exit' = ""]_vars

\* the splitter returned nothing for the first instrument, its warning file
\* is written and main() is back at its loop for the second instrument
C12_Witness ==
    /\ ~cfg.windowed /\ Len(reqs) > 2 /\ Len(measurements) = 0
    /\ idx = 2 /\ files[1] = "warning"
    /\ pc = "loop" /\ exit = ""

\* C13: when a daily window is requested, no fetch reported an error and the
\* walker returned at least one observation (for a portal whose columns can
\* be sorted), main() writes the instrument's table and goes on to the next
\* instrument without aborting, as it does on the plain path.
C13_WindowedPathCompletes ==
    [][(/\ pc = "handoff" /\ cfg.windowed
        /\ Len(measurements) > 0 /\ HasSort(cfg.portal_name)) =>
          /\ files' = [files EXCEPT ![idx] = "csv"]
          /\ idx' = idx + 1
          /\ pc' = "loop"
          /\ exit' = ""]_vars

\* what the compass field of a bearing is to hold
ExpectedCompass(b, null) ==
    IF b >= 0 /\ b <= 360 THEN BucketLabel(b) ELSE null

\* the directional fields of the dict passed to write_compass_direction
DirectionalIn(d) == {f \in {"wd", "wgd", "wind_direction"} : HasKey(d, f)}

\* C14: normalizing a record adds, for every directional field f in it,
\* exactly one field f_compass_dir holding the compass label of f's bearing or
\* the null marker, and changes nothing else: every original field keeps its
\* name, value and place, and no other field is added.
C14_NormalizeFrame ==
    ret.done =>
        LET d == ret.arg
            out == ret.val
            added == {f \in DirectionalIn(d) : ~HasKey(d, CompassName(f))}
        IN  /\ Len(out) = Len(d) + Cardinality(added)
            /\ \A k \in 1..Len(d) : out[k] = d[k]
            /\ \A j, k \in 1..Len(out) : j # k => out[j][1] # out[k][1]
            /\ Range(Keys(out)) =
                   Range(Keys(d)) \cup {CompassName(f) : f \in DirectionalIn(d)}
            /\ \A f \in DirectionalIn(d) :
                   Get(out, CompassName(f)) = ExpectedCompass(Get(d, f), call.null)

\* a record with two directional fields and one other, one bearing out of
\* range, after its first normalization
C14_Witness ==
    /\ ret.done /\ ret.round = 1 /\ call.null = "NaN"
    /\ ret.arg = << <<"wgd", 400>>, <<"t1", 90>>, <<"wd", 90>> >>
    /\ ret.val = << <<"wgd", 400>>, <<"t1", 90>>, <<"wd", 90>>,
                    <<"wgd_compass_dir", "NaN">>, <<"wd_compass_dir", "E">> >>

\* C15: whenever build_headers discovers at least one field and returns, its
\* result begins with the header 'time'; and it returns the empty header list
\* if and only if no field was discovered in any record.
C15_TimeFirstOrEmpty ==
    ret.done =>
        /\ (FieldNames # {} /\ ~HeadersAborted) =>
              Len(ret.val) >= 1 /\ ret.val[1] = "time"
        /\ ret.val = <<>> <=> FieldNames = {}

\* the requests of the splitter that were answered with data
Fetched == {k \in 1..Len(reqs) : reqs[k].by = "split" /\ reqs[k].answer = "Ok"}

\* every request so far was answered with data or with TooMany
OnlyOkOrTooMany ==
    \A k \in 1..Len(reqs) : reqs[k].answer \in {"Ok", "TooMany"}

\* C16: when the splitter returns normally, only successes and TooMany having
\* been reported, the sub-intervals whose records it returns cover the
\* requested range without gaps: every second of [start, end] lies inside a
\* sub-interval that was fetched successfully.
C16_NoGaps ==
    (pc = "handoff" /\ num_divisions > 0 /\ OnlyOkOrTooMany) =>
        \A x \in cfg.start..cfg.end :
            \E k \in Fetched : reqs[k].lo <= x /\ x <= reqs[k].hi

\* C17: the splitter never reaches a state in which a sweep skips all of its
\* sub-intervals: whenever it is in its loop, the sweep has a sub-interval
\* left that it will fetch, so that, requests succeeding, it returns.
C17_EverySweepFetches ==
    (pc = "split" /\ OnlyOkOrTooMany) => Pending(i) # {}

SplitReqs == {k \in 1..Len(reqs) : reqs[k].by = "split"}

\* the number of fields the API delivered in the records of a result
RECURSIVE DeliveredFields(_, _)
DeliveredFields(ms, k) ==
    IF k > Len(ms) THEN 0
    ELSE Cardinality({j \in 1..Len(ms[k]) : ~EndsWithCompassDir(ms[k][j][1])})
         + DeliveredFields(ms, k + 1)

\* C18: after a TooMany at the sub-interval that starts at boundary t, no
\* later request of the splitter is for a sub-interval that starts before t;
\* and nothing is collected twice: every record of a successful request is in
\* the result exactly once, and the measurement count is the number of fields
\* of the records in the result.
C18_PrefixNotRefetched ==
    ~cfg.windowed =>
        /\ \A k, m \in SplitReqs :
              (k < m /\ reqs[k].answer = "TooMany") => reqs[m].lo >= reqs[k].lo
        /\ \A a, b \in 1..Len(time) : a # b => time[a] # time[b]
        /\ \A k \in Fetched :
              Cardinality({a \in 1..Len(time) : time[a].req = k}) = reqs[k].n
        /\ num_divisions > 0 =>
              total_num_measurements = DeliveredFields(measurements, 1)

\* the splitter returned after a TooMany, with records from before it and
\* from after it
C18_Witness ==
    /\ pc = "handoff"
    /\ \E j, k, m \in SplitReqs :
          /\ j < k /\ k < m
          /\ reqs[j].n > 0 /\ reqs[k].answer = "TooMany" /\ reqs[m].n > 0
    /\ total_num_measurements = 6

SplitterReturned == pc = "handoff" /\ num_divisions > 0

\* C19 as claimed: the result the splitter returns after a re-split holds
\* only records collected in the last sweep, the one at the final division
\* count; the records of the prefix fetched in earlier sweeps are not in it.
C19_OnlyLastSweep ==
    SplitterReturned =>
        \A a \in 1..Len(time) : IntervalOf(time[a]).d = num_divisions

\* C19 as amended: the result the splitter returns holds the records of
\* every sub-interval fetched successfully in any sweep, those of the prefix
\* fetched before a re-split included: the lists are never emptied.
C19_AllSweepsKept ==
    SplitterReturned =>
        \A k \in Fetched : \A j \in 1..reqs[k].n :
            \E a \in 1..Len(time) : time[a].req = k /\ time[a].k = j

\* a result with records of a sweep before the last re-split
C19_Witness ==
    /\ SplitterReturned
    /\ \E a \in 1..Len(time) : IntervalOf(time[a]).d < num_divisions
    /\ \E a \in 1..Len(time) : IntervalOf(time[a]).d = num_divisions

\* floor(total_minutes / d), in seconds
StepOf(c) == 60 * ((c.end_time - c.start_time) \div (60 * c.divisions))

TimestampsReturned == ret.done /\ call.fn = "get_timestamps" /\ ret.val.ok

\* C20 as claimed: whenever get_timestamps returns for start <= end and d
\* divisions, it returns exactly d + 1 boundaries, the first equal to start,
\* the last equal to end, and consecutive ones floor(total_minutes / d)
\* minutes apart, except that the final boundary is moved to end when the
\* rounding leaves a remainder.
C20_ExactlyDPlusOne ==
    TimestampsReturned =>
        LET ts == ret.val.ts
            d == call.divisions
        IN  /\ Len(ts) = d + 1
            /\ ts[1] = call.start_time
            /\ ts[Len(ts)] = call.end_time
            /\ \A k \in 1..(d - 1) : ts[k + 1] - ts[k] = StepOf(call)

\* C20 as amended: whenever get_timestamps returns for start <= end and d
\* divisions, the first d + 1 boundaries start at start and are
\* floor(total_minutes / d) minutes apart; when the last of them is end they
\* are the whole result, and otherwise end is appended as one more boundary,
\* d + 2 in all. The first boundary is start and the last is end.
C20_EndAppended ==
    TimestampsReturned =>
        LET ts == ret.val.ts
            d == call.divisions
            exact == call.start_time + d * StepOf(call) = call.end_time
        IN  /\ Len(ts) = IF exact THEN d + 1 ELSE d + 2
            /\ ts[1] = call.start_time
            /\ ts[Len(ts)] = call.end_time
            /\ \A k \in 1..d : ts[k + 1] - ts[k] = StepOf(call)

\* a range that leaves a remainder, split in four
C20_Witness ==
    /\ TimestampsReturned
    /\ call.divisions = 4
    /\ Len(ret.val.ts) = 6
    /\ ret.val.ts[5] < call.end_time

TimestampsCalled == ret.done /\ call.fn = "get_timestamps"

\* original end minus the last evenly spaced boundary, in seconds
RemainderOf(c) == c.end_time - (c.start_time + c.divisions * StepOf(c))

\* C21: get_timestamps aborts the run exactly when the remainder is non-zero
\* and not smaller than one interval length floor(total_minutes / d); when
\* the remainder is non-zero and smaller than one interval length it returns
\* with the last boundary equal to the original end.
C21_AbortsIffRemainderTooLong ==
    TimestampsCalled =>
        LET rem == RemainderOf(call)
            long == rem # 0 /\ rem >= StepOf(call)
            short == rem # 0 /\ rem < StepOf(call)
        IN  /\ ~ret.val.ok <=> long
            /\ short => (ret.val.ok
                         /\ ret.val.ts[Len(ret.val.ts)] = call.end_time)

\* the days the walker is to fetch: the first day when its window starts at
\* or after the range start, then the days after it up to the first one whose
\* window does not end before the range end
WalkDays ==
    LET first == DateOf(cfg.start)
    IN  (IF Combine(first, cfg.window_start) >= cfg.start THEN {first} ELSE {})
        \cup {d \in (first + 1)..(DateOf(cfg.end) + 1) :
                \A e \in (first + 1)..d : Combine(e, cfg.window_end) < cfg.end}

DayOfReq(k) == DateOf(reqs[k].lo)

\* C22: the walker fetches the first day iff its window starts at or after
\* the range start, then exactly the consecutive later days whose window ends
\* before the range end, stopping at the first day that fails; every fetch
\* spans one day's window and no day is fetched twice. While the walker runs
\* the days fetched are the earliest of these days, and when it returns they
\* are all of them.
C22_WalkerDays ==
    cfg.windowed =>
        /\ \A k \in 1..Len(reqs) :
              /\ reqs[k].by = "walk"
              /\ DayOfReq(k) \in WalkDays
              /\ reqs[k].lo = Combine(DayOfReq(k), cfg.window_start)
              /\ reqs[k].hi = Combine(DayOfReq(k), cfg.window_end)
              /\ \A d \in WalkDays :
                    d < DayOfReq(k) => \E j \in 1..(k - 1) : DayOfReq(j) = d
        /\ \A j, k \in 1..Len(reqs) : j < k => DayOfReq(j) < DayOfReq(k)
        /\ pc = "handoff" =>
              \A d \in WalkDays : \E k \in 1..Len(reqs) : DayOfReq(k) = d

\* the walker returned after fetching the first day and two later days, with
\* the day after them failing the test
C22_Witness ==
    /\ cfg.windowed /\ pc = "handoff"
    /\ Len(reqs) = 3
    /\ DayOfReq(1) = DateOf(cfg.start) /\ DayOfReq(3) = DateOf(cfg.start) + 2
    /\ Len(time) > 0

\* C23: every request of the walker lies inside the requested range: it
\* starts at or after the range start and ends at or before the range end,
\* on the first day as on every later day.
C23_WalkerInsideRange ==
    \A k \in 1..Len(reqs) :
        reqs[k].by = "walk" => (cfg.start <= reqs[k].lo /\ reqs[k].hi <= cfg.end)

PlainAnswered ==
    /\ ~cfg.windowed /\ pc = "handoff"
    /\ Len(reqs) = 1 /\ reqs[1].by = "plain" /\ reqs[1].answer = "Ok"

\* C24: on the plain-fetch path the dataset holds one row for every
\* observation of the response, in response order, as the splitter and the
\* walker keep them; no observation is dropped because of its timestamp.
C24_PlainKeepsEveryObservation ==
    PlainAnswered =>
        /\ Len(time) = reqs[1].n
        /\ \A k \in 1..Len(time) : time[k].req = 1 /\ time[k].k = k

ErrorAnswers == {"AuthError", "ServerError", "TooMany"}

\* C25: in the walker a per-day response of any error kind (AuthError,
\* ServerError or TooMany) ends the whole run: it is the last request issued,
\* the run has aborted with a failure, the splitter was never set up or
\* called, and nothing was written for the instrument.
C25_WalkerErrorEndsRun ==
    \A k \in 1..Len(reqs) :
        (reqs[k].by = "walk" /\ reqs[k].answer \in ErrorAnswers) =>
            /\ k = Len(reqs)
            /\ Aborted
            /\ ~SplitterInvoked
            /\ files[idx] = "none"

\* a TooMany answer for a later day, after the first day was fetched
C25_Witness ==
    /\ Len(reqs) = 2
    /\ reqs[1].by = "walk" /\ reqs[1].answer = "Ok"
    /\ reqs[2].by = "walk" /\ reqs[2].answer = "TooMany"
    /\ Combine(DayOfReq(2) + 1, cfg.window_end) < cfg.end
    /\ pc = "aborted"

\* a step of reduce_datapoints(): the division count changes exactly when
\* the step's response is one of `doubling`, it is then doubled, and the
\* boundaries in use afterwards are those of the whole range [start, end]
SplitterStep(doubling) ==
    pc = "split" =>
        IF Len(reqs') > Len(reqs) /\ Last(reqs').answer \in doubling
        THEN /\ num_divisions' = 2 * num_divisions
             /\ pc' = "split" =>
                   /\ new_timestamps' =
                          get_timestamps(cfg.start, cfg.end, num_divisions').ts
                   /\ new_timestamps'[1] = cfg.start
                   /\ Last(new_timestamps') = cfg.end
        ELSE num_divisions' = num_divisions /\ new_timestamps' = new_timestamps

\* C26: the splitter's division count starts at 2 and is doubled exactly on
\* each TooMany response, changing at no other time; after each doubling the
\* boundaries in use are those of the whole original range divided into the
\* new count.
C26_DoubledOnTooManyOnly ==
    [][ /\ (pc = "plain" /\ pc' = "split") => num_divisions' = 2
        /\ SplitterStep({"TooMany"}) ]_vars

\* the duration of the requested range in whole minutes
WholeMinutes == (cfg.end - cfg.start) \div 60

\* the largest power of two that is at most n, for n >= 1
RECURSIVE Pow2Floor(_)
Pow2Floor(n) == IF n < 2 THEN 1 ELSE 2 * Pow2Floor(n \div 2)

\* C27: for a range with start < end the splitter issues no request while
\* its division count exceeds the duration in whole minutes, because the
\* boundary computation aborts the run first; the count, which starts at 2,
\* is therefore doubled at most floor(log2(duration in minutes)) times,
\* whatever the server answers.
C27_DoublingBounded ==
    (~cfg.windowed /\ cfg.start < cfg.end) =>
        /\ \A k \in SplitReqs : reqs[k].d <= WholeMinutes
        /\ pc = "split" => num_divisions <= WholeMinutes
        /\ num_divisions <= 2 * Pow2Floor(WholeMinutes)

\* an 8-minute range answered TooMany at 2, 4 and 8 divisions: the fourth
\* boundary computation, for 16 divisions, aborted the run
C27_Witness ==
    /\ ~cfg.windowed /\ WholeMinutes = 8
    /\ pc = "aborted" /\ exit = "sys.exit(1)"
    /\ num_divisions = 16
    /\ Last(reqs).by = "split" /\ Last(reqs).d = 8
    /\ Last(reqs).answer = "TooMany"

\* C28: within one instrument the requests are issued in chronological
\* order: in the splitter, across all its sweeps, and in the walker no
\* request starts earlier than the request before it, and the spans of two
\* successfully fetched sub-ranges overlap at most in a shared boundary
\* instant.
C28_RequestsInOrder ==
    /\ \A k \in 2..Len(reqs) : reqs[k - 1].lo <= reqs[k].lo
    /\ \A j, k \in 1..Len(reqs) :
          (j < k /\ reqs[j].answer = "Ok" /\ reqs[k].answer = "Ok") =>
              reqs[j].hi <= reqs[k].lo

\* a sub-interval fetched at 2 divisions, a TooMany on the next one, and the
\* sweep at 4 divisions resumed and finished behind the fetched prefix
C28_Witness ==
    /\ pc = "handoff" /\ Len(reqs) >= 5
    /\ reqs[2].d = 2 /\ reqs[2].answer = "Ok"
    /\ reqs[3].d = 2 /\ reqs[3].answer = "TooMany"
    /\ reqs[4].d = 4 /\ reqs[4].answer = "Ok" /\ reqs[4].lo >= reqs[2].hi
    /\ Last(reqs).hi = cfg.end

HeadersReturned ==
    /\ ret.done /\ call.fn = "build_headers"
    /\ ~HeadersAborted /\ ret.val # <<>>

\* C29: in every non-empty header list each compass-direction column
\* f_compass_dir comes directly after its directional field f, or directly
\* after f's test column when test flags are included, both when no columns
\* are requested and when f is requested.
C29_CompassAdjacent ==
    HeadersReturned =>
        \A p \in 1..Len(ret.val) : \A f \in wind_dir_shortnames :
            ret.val[p] = CompassName(f) =>
                \/ p > 1 /\ ret.val[p - 1] = f
                \/ /\ call.include_test /\ p > 2
                   /\ ret.val[p - 1] = "test" /\ ret.val[p - 2] = f

\* C30: every portal name that main()'s validation accepts has a profile:
\* sorting the columns of a result finds the portal's field order and does
\* not end the run with "Could not sort columns.", and a run that finishes
\* has written the README for the portal.
C30_AcceptedPortalHasProfile ==
    /\ cfg.portal_name \in Range(portal_lookup)
    /\ pc = "handoff" =>
          get_columns(measurements, cfg.include_test, cfg.portal_name)
              # <<"EXIT1">>
    /\ pc = "done" => readme

=============================================================================
